---- MODULE Spec2Model ----
(***************************************************************************)
(* Model of the blog-post workflow of src/chapters/chapter-17/example03.rs *)
(* (struct Post, trait State and its three implementations).               *)
(*                                                                         *)
(* Strings are sequences of characters.  A call of Post::approve or        *)
(* Post::request_review is two steps, as in the code: `self.state.take()`  *)
(* empties the slot, then `self.state = Some(..)` stores the value that    *)
(* the taken state returned.  hist, preState and preContent are history    *)
(* variables: the calls made so far, and the fields as they were when the  *)
(* last call started.                                                      *)
(***************************************************************************)
EXTENDS Integers, Sequences, FiniteSets

VARIABLES state, content, pc, s, hist, preState, preContent

vars == <<state, content, pc, s, hist, preState, preContent>>

\* ---- bounds ----
MaxOps == 4
MaxTextLen == 2

Chars == {"a", "b"}
Texts == UNION {[1..n -> Chars] : n \in 0..MaxTextLen}

\* ---- types ----
\* the three implementors of trait State
States == {"Draft", "PendingReview", "Published"}
\* Option::None of the field `state`
None == "None"

\* ---- trait State: the transition functions ----
Draft_request_review(self) == self
Draft_approve_skip(self) == "Published"
Draft_approve(self) == self

PendingReview_request_review(self) == self
PendingReview_approve_self(self) == self
PendingReview_approve(self) == "Published"

Published_request_review_back(self) == "PendingReview"
Published_request_review(self) == self
Published_approve(self) == self

\* dynamic dispatch on Box<dyn State>
State_request_review(b) ==
    CASE b = "Draft" -> Draft_request_review(b)
      [] b = "PendingReview" -> PendingReview_request_review(b)
      [] b = "Published" -> Published_request_review(b)

State_approve(b) ==
    CASE b = "Draft" -> Draft_approve(b)
      [] b = "PendingReview" -> PendingReview_approve(b)
      [] b = "Published" -> Published_approve(b)

\* ---- impl Post ----
push_str_front(buf, text) == text \o buf
push_str(buf, text) == buf \o text

\* Post::content(&self) -> &str
Post_content == content

Call(op, text) == [op |-> op, text |-> text]

\* Post::new()
new ==
    /\ state = "Draft"
    /\ content = <<>>
    /\ pc = "idle"
    /\ s = None
    /\ hist = <<>>
    /\ preState = state
    /\ preContent = content

\* Post::add_text(&mut self, text)
add_text ==
    /\ pc = "idle"
    /\ Len(hist) < MaxOps
    /\ \E text \in Texts :
          /\ content' = push_str(content, text)
          /\ hist' = Append(hist, Call("add_text", text))
    /\ preState' = state
    /\ preContent' = content
    /\ UNCHANGED <<state, pc, s>>

\* Post::approve, `if let Some(s) = self.state.take()`
approve_take ==
    /\ pc = "idle"
    /\ Len(hist) < MaxOps
    /\ hist' = Append(hist, Call("approve", <<>>))
    /\ preState' = state
    /\ preContent' = content
    /\ IF state # None
         THEN /\ s' = state
              /\ state' = None
              /\ pc' = "approve"
         ELSE UNCHANGED <<state, pc, s>>
    /\ UNCHANGED content

approve_store_drop ==
    /\ pc = "approve"
    /\ pc' = "idle"
    /\ s' = None
    /\ UNCHANGED <<state, content, hist, preState, preContent>>

\* Post::approve, `self.state = Some(s.approve())`
approve_store ==
    /\ pc = "approve"
    /\ state' = State_approve(s)
    /\ s' = None
    /\ pc' = "idle"
    /\ UNCHANGED <<content, hist, preState, preContent>>

\* Post::request_review, `if let Some(s) = self.state.take()`
request_review_take ==
    /\ pc = "idle"
    /\ Len(hist) < MaxOps
    /\ hist' = Append(hist, Call("request_review", <<>>))
    /\ preState' = state
    /\ preContent' = content
    /\ IF state # None
         THEN /\ s' = state
              /\ state' = None
              /\ pc' = "request_review"
         ELSE UNCHANGED <<state, pc, s>>
    /\ UNCHANGED content

\* Post::request_review, `self.state = Some(s.request_review())`
request_review_store ==
    /\ pc = "request_review"
    /\ state' = State_request_review(s)
    /\ s' = None
    /\ pc' = "idle"
    /\ UNCHANGED <<content, hist, preState, preContent>>

Init == new

Next ==
    \/ add_text
    \/ approve_take
    \/ approve_store
    \/ request_review_take
    \/ request_review_store

\* the program: any sequence of calls on an item made by Post::new()
Spec == Init /\ [][Next]_vars

\* The transition functions of trait State applied to every implementor:
\* the item starts with an empty buffer and a state of any of the three
\* types, and the same operations of Post act on it.
InitTable ==
    /\ state \in States
    /\ content = <<>>
    /\ pc = "idle"
    /\ s = None
    /\ hist = <<>>
    /\ preState = state
    /\ preContent = content

SpecTable == InitTable /\ [][Next]_vars

\* ---- helpers of the properties ----
Idle == pc = "idle"
LastOp == IF hist = <<>> THEN "new" ELSE hist[Len(hist)].op

RECURSIVE AddedText(_)
\* the arguments of the add_text calls of h, concatenated in call order
AddedText(h) ==
    IF h = <<>> THEN <<>>
    ELSE IF h[1].op = "add_text" THEN h[1].text \o AddedText(Tail(h))
    ELSE AddedText(Tail(h))

Ops(h) == [i \in 1..Len(h) |-> h[i].op]

ReviewedThenApproved(h) ==
    \E i, j \in 1..Len(h) :
        i < j /\ h[i].op = "request_review" /\ h[j].op = "approve"

NeverReviewed(h) == \A i \in 1..Len(h) : h[i].op # "request_review"

TypeOK ==
    /\ state \in States \cup {None}
    /\ s \in States \cup {None}
    /\ pc \in {"idle", "approve", "request_review"}
    /\ Len(hist) <= MaxOps

\* ---- claims ----

\* C1: between calls, content() is the whole buffer when the state is
\* Published and the empty string when it is Draft or PendingReview.
C1_ContentGatedByState ==
    Idle => Post_content = (IF state = "Published" THEN content ELSE <<>>)

\* C2: in the run new(); add_text(t); request_review(); approve(), content()
\* is empty after add_text, empty after request_review and t after approve.
C2_MainAssertions ==
    Idle =>
      /\ Ops(hist) = <<"add_text">> => Post_content = <<>>
      /\ Ops(hist) = <<"add_text", "request_review">> => Post_content = <<>>
      /\ Ops(hist) = <<"add_text", "request_review", "approve">>
            => Post_content = hist[1].text

\* C3: content() is non-empty exactly when the calls so far contain a
\* request_review() followed later by an approve().
C3_NonEmptyIffReviewedThenApproved ==
    Idle => ((Post_content # <<>>) <=> ReviewedThenApproved(hist))

\* C4: a request_review() call that started in Draft ends in PendingReview.
C4_DraftRequestReview ==
    (Idle /\ LastOp = "request_review" /\ preState = "Draft")
        => state = "PendingReview"

\* C5: an approve() call that started in PendingReview ends in Published.
C5_PendingReviewApprove ==
    (Idle /\ LastOp = "approve" /\ preState = "PendingReview")
        => state = "Published"

C5_Witness ==
    /\ Idle
    /\ LastOp = "approve"
    /\ preState = "PendingReview"
    /\ state = "Published"

\* C6: as long as request_review() was never called, whatever add_text and
\* approve calls were made, the state is Draft and content() is empty.
C6_ApproveWithoutReviewIsNoOp ==
    (Idle /\ NeverReviewed(hist)) => (state = "Draft" /\ Post_content = <<>>)

\* C7: every call that started in Published ends in Published, and an
\* approve() or request_review() call that started in Published leaves the
\* buffer, and so content(), as it was.
C7_PublishedAbsorbing ==
    (Idle /\ preState = "Published")
        => /\ state = "Published"
           /\ LastOp \in {"approve", "request_review"}
                 => (content = preContent /\ Post_content = preContent)

C7_Witness ==
    /\ Idle
    /\ Len(hist) = 3
    /\ hist[1].op = "add_text" /\ hist[1].text # <<>>
    /\ {hist[2].op, hist[3].op} = {"approve", "request_review"}
    /\ preState = "Published"
    /\ state = "Published"
    /\ Post_content = hist[1].text

\* C8: the buffer is the concatenation of the arguments of all add_text
\* calls in call order, whatever request_review and approve calls came in
\* between, so a non-empty content() is that concatenation.
C8_BufferIsConcatenation ==
    /\ content = AddedText(hist)
    /\ Post_content # <<>> => Post_content = AddedText(hist)

C8_Witness ==
    /\ Idle
    /\ Len(hist) = 4
    /\ hist[1].op = "add_text" /\ hist[1].text = <<"a">>
    /\ hist[2].op = "request_review"
    /\ hist[3].op = "approve"
    /\ hist[4].op = "add_text" /\ hist[4].text = <<"b", "a">>
    /\ Post_content = <<"a", "b", "a">>

\* C9 as stated: the state slot holds one of Draft, PendingReview, Published
\* in every state, the states inside a request_review() or approve() call
\* included.
C9_StateNeverAbsent == state \in States

\* C9 amended: between calls the state slot holds exactly one of Draft,
\* PendingReview, Published; inside a request_review() or approve() call,
\* between take() and the store, the slot is None and the taken state is
\* held by the call.
C9_StatePresentBetweenCalls ==
    /\ Idle => (state \in States /\ s = None)
    /\ ~Idle => (state = None /\ s \in States)

C9_Witness ==
    /\ pc = "approve"
    /\ Len(hist) = 2
    /\ hist[1].op = "request_review"
    /\ hist[2].op = "approve"
    /\ state = None
    /\ s = "Draft"

\* C10: a call that ends in another state than it started in is either a
\* request_review() from Draft to PendingReview or an approve() from
\* PendingReview to Published; every other call, add_text in any state and
\* request_review() in PendingReview included, ends in the state it
\* started in.
C10_OnlyForwardTransitions ==
    (Idle /\ state # preState)
        => \/ (LastOp = "request_review" /\ preState = "Draft"
                  /\ state = "PendingReview")
           \/ (LastOp = "approve" /\ preState = "PendingReview"
                  /\ state = "Published")

C10_Witness ==
    /\ Idle
    /\ Len(hist) = 4
    /\ hist[1].op = "request_review"
    /\ hist[2].op = "add_text"
    /\ hist[3].op = "request_review"
    /\ hist[4].op = "approve"
    /\ preState = "PendingReview"
    /\ state = "Published"
====
